---------------------------- MODULE Spec2Model ----------------------------
(***************************************************************************)
(* Tongji-Voice: the voice / text-task lifecycle of src/app.py.            *)
(*                                                                         *)
(* State: the two JSON collections under uploads/ (audio_metadata.json,    *)
(* text_tasks.json), the other files of uploads/, and the HTTP response of *)
(* the last handler that ran.  Every route handler of app.py is one action *)
(* (handlers run to completion, one at a time).                            *)
(*                                                                         *)
(* Encodings.                                                              *)
(*  - A text is [lead, body, trail]: `lead` whitespace characters, then    *)
(*    `body` characters that begin and end with a non-whitespace one, then *)
(*    `trail` whitespace characters (body = 0: nothing but whitespace).    *)
(*  - A file name of uploads/ is <<prefix, stem, suffix>>.                 *)
(*  - uuid4 strings are numbered in the order uuid4() returns them (the    *)
(*    code only ever compares them for equality), and file stems are       *)
(*    numbered too; 0 as an id stands for an absent / empty id.            *)
(*  - Messages are ASCII tokens for the handlers' (Chinese) messages.      *)
(*                                                                         *)
(* Spec runs the handlers one at a time.  SpecRace runs two                *)
(* submit_text_task calls as threads of the Flask server, interleaved at   *)
(* the read and the write of text_tasks.json; `calls` holds each call's    *)
(* position, locals and response, and stays idle under Spec.  SpecRetry    *)
(* adds to the one-at-a-time task handlers a caller that calls             *)
(* generate_audio again until the engine works.  SpecTaskRace interleaves  *)
(* two calls of submit_text_task, generate_audio or delete_task, and       *)
(* SpecVoiceRace two calls of upload_audio, at their file reads and        *)
(* writes.                                                                 *)
(***************************************************************************)
EXTENDS Integers, Sequences, FiniteSets

VARIABLES
    metadata,     \* METADATA_PATH: [exists, data], data the list of voice records
    text_tasks,   \* TEXT_TASK_PATH: [exists, data], data the list of task records
    uploads,      \* names of the other files present in UPLOAD_FOLDER
    voiceUuids,   \* how many uuid4 values upload_audio has drawn
    taskUuids,    \* how many uuid4 values submit_text_task has drawn
    resp,         \* the response returned by the last handler
    calls         \* the submit_text_task calls that run concurrently, by caller

vars == <<metadata, text_tasks, uploads, voiceUuids, taskUuids, resp, calls>>

---------------------------------------------------------------------------
(* Bounds of the model *)

NumTaskIds == 2

NumVoiceIds == 1

(* Program constants *)

MinChars == 800

MaxChars == 2000

min_sec == 5

max_sec == 30

---------------------------------------------------------------------------
(* Input domains *)

NoId == 0

TaskIds == 1..NumTaskIds

VoiceIds == 1..NumVoiceIds

\* voice_id values a request can carry: absent, an id uuid4 can produce, or
\* an id that is never issued.
RequestVoiceIds == 0..(NumVoiceIds + 1)

\* task_id values a request can carry.
RequestTaskIds == 0..NumTaskIds

TextLens == {0, MinChars - 1, MinChars, MaxChars, MaxChars + 1}

\* Surrounding whitespace a submitted text can carry: <<leading, trailing>>
Pads == {<<0, 0>>, <<1, 0>>}

\* Submitted texts: the boundary lengths without surrounding whitespace, and
\* with it the lengths where the whitespace would change the outcome if it
\* were counted (nothing but whitespace, one short of the minimum, the
\* maximum).
Texts ==
    {[lead |-> p[1], body |-> n, trail |-> p[2]] :
        p \in Pads \ {<<0, 0>>}, n \in {0, MinChars - 1, MaxChars}}
    \cup {[lead |-> 0, body |-> n, trail |-> 0] :
              n \in TextLens \ {MinChars - 1}}

Durations == {min_sec - 1, min_sec, max_sec, max_sec + 1}

\* Names of uploaded files (stems are numbered, as the uuid4 strings are)
UploadNames == [stem : {0}, ext : {".mp3"}]

\* time.strftime('%Y-%m-%d %H:%M:%S'): no handler reads a timestamp back, so
\* every timestamp is the one abstract value.
strftime == "timestamp"

NoFile == <<>>

---------------------------------------------------------------------------
(* Pure helpers *)

\* str(uuid.uuid4()): a value never returned before, the drawn-th one
uuid4(drawn) == drawn + 1

\* str.strip(): the surrounding whitespace is removed.
strip(t) == [lead |-> 0, body |-> t.body, trail |-> 0]

\* len(str)
len(t) == t.lead + t.body + t.trail

\* os.path.join(UPLOAD_FOLDER, filename) of an uploaded file
original_path(f) == <<"", f.stem, f.ext>>

\* "processed_" + filename.rsplit('.', 1)[0] + ".wav"
processed_path(f) == <<"processed_", f.stem, ".wav">>

\* output_filename that avoids overwriting a file that already exists
output_filename_fresh(task_id) ==
    IF <<"", task_id, "_output.wav">> \in uploads
    THEN <<"copy_", task_id, "_output.wav">>
    ELSE <<"", task_id, "_output.wav">>

\* f"{task_id}_output.wav"
output_filename(task_id) == <<"", task_id, "_output.wav">>

\* f"/get_audio/{task_id}"
download_url(task_id) == <<"/get_audio/", task_id>>

\* next((i for i, t in enumerate(tasks) if t["task_id"] == task_id), None):
\* the index of the first match, 0 for None.
FirstIndex(tasks, task_id) ==
    IF \E i \in 1..Len(tasks) : tasks[i].task_id = task_id
    THEN CHOOSE i \in 1..Len(tasks) :
            /\ tasks[i].task_id = task_id
            /\ \A j \in 1..(i - 1) : tasks[j].task_id # task_id
    ELSE 0

\* SelectNotId that keeps no record at all
SelectNotId_keeps_none(tasks, task_id) == <<>>

\* SelectNotId that stops copying at the first match
SelectNotId_until_match(tasks, task_id) ==
    IF FirstIndex(tasks, task_id) = 0 THEN tasks
    ELSE SubSeq(tasks, 1, FirstIndex(tasks, task_id) - 1)

\* [t for t in tasks if t["task_id"] != task_id]
RECURSIVE SelectNotId(_, _)
SelectNotId(tasks, task_id) ==
    IF tasks = <<>> THEN <<>>
    ELSE IF Head(tasks).task_id # task_id
         THEN <<Head(tasks)>> \o SelectNotId(Tail(tasks), task_id)
         ELSE SelectNotId(Tail(tasks), task_id)

\* voice_exists that only asks whether the request names a voice
voice_exists_named(voices, voice_id) == voice_id # NoId

\* voice_exists that only asks whether any voice is stored
voice_exists_any(voices, voice_id) == Len(voices) > 0

\* any(v["id"] == voice_id for v in voices)
voice_exists(voices, voice_id) ==
    \E i \in 1..Len(voices) : voices[i].id = voice_id

\* length_rejected with the lower bound made exclusive
length_rejected_exclusive(text) == len(text) <= MinChars \/ len(text) > MaxChars

\* The length policy of submit_text_task: len(text) < 800 or len(text) > 2000
length_rejected(text) == len(text) < MinChars \/ len(text) > MaxChars

\* duration_rejected with both limits made exclusive
duration_rejected_exclusive(duration) ==
    duration <= min_sec \/ duration >= max_sec

\* check_audio_duration: duration < min_sec or duration > max_sec raises
duration_rejected(duration) == duration < min_sec \/ duration > max_sec

\* load_all_voices()
load_all_voices == IF metadata.exists THEN metadata.data ELSE <<>>

\* The tasks read from TEXT_TASK_PATH, [] when the file does not exist
load_tasks == IF text_tasks.exists THEN text_tasks.data ELSE <<>>

Response(op, code, msg, id, audio_file, url, body) ==
    [op |-> op, code |-> code, msg |-> msg, id |-> id,
     audio_file |-> audio_file, url |-> url, body |-> body]

Error(op, code, msg) == Response(op, code, msg, NoId, NoFile, NoFile, <<>>)

\* The two concurrent callers of submit_text_task
Callers == {1, 2}

\* A call that has not started: pc is the call's position; task_id,
\* task_record, tasks (task handlers), metadata (upload_audio) and data
\* (save_metadata) are the locals of these names; resp is its response
IdleCall ==
    [pc |-> "idle", task_id |-> NoId, task_record |-> <<>>, tasks |-> <<>>,
     metadata |-> <<>>, data |-> <<>>,
     resp |-> Error("none", 0, "none")]

---------------------------------------------------------------------------
Init ==
    /\ metadata = [exists |-> FALSE, data |-> <<>>]
    /\ text_tasks = [exists |-> FALSE, data |-> <<>>]
    /\ uploads = {}
    /\ voiceUuids = 0
    /\ taskUuids = 0
    /\ resp = Error("none", 0, "none")
    /\ calls = [p \in Callers |-> IdleCall]

---------------------------------------------------------------------------
(* save_metadata(metadata): read-modify-write append to METADATA_PATH *)
save_metadata(record) ==
    [exists |-> TRUE, data |-> Append(load_all_voices, record)]

(* POST /upload_audio.  has_file: 'file' in request.files; f: the uploaded  *)
(* file's name; decodes: AudioSegment.from_file succeeds; duration: what    *)
(* librosa.get_duration measures on the processed file.                     *)
upload_audio(has_file, f, decodes, duration) ==
    /\ UNCHANGED <<text_tasks, taskUuids>>
    /\ IF ~has_file
       THEN /\ resp' = Error("upload_audio", 400, "No file provided")
            /\ UNCHANGED <<metadata, uploads, voiceUuids>>
       ELSE IF ~decodes
       THEN \* file.save ran; standardize_audio raised before exporting
            /\ uploads' = uploads \cup {original_path(f)}
            /\ resp' = Error("upload_audio", 500, "standardize_audio failed")
            /\ UNCHANGED <<metadata, voiceUuids>>
       ELSE IF duration_rejected(duration)
       THEN \* the processed file was exported; check_audio_duration raised
            /\ uploads' = uploads \cup {original_path(f), processed_path(f)}
            /\ resp' = Error("upload_audio", 500, "duration out of range")
            /\ UNCHANGED <<metadata, voiceUuids>>
       ELSE LET voice_id == uuid4(voiceUuids) IN
            /\ voice_id \in VoiceIds  \* the model stops issuing ids here
            /\ uploads' = uploads \cup {original_path(f), processed_path(f)}
            /\ voiceUuids' = voiceUuids + 1
            /\ metadata' = save_metadata(
                   [id |-> voice_id,
                    filename |-> processed_path(f),
                    duration |-> duration,
                    upload_time |-> strftime,
                    path |-> processed_path(f)])
            /\ resp' = Response("upload_audio", 200, "uploaded", voice_id,
                                NoFile, NoFile, <<>>)

(* GET /list_voices *)
list_voices ==
    /\ resp' = Response("list_voices", 200, "ok", NoId, NoFile, NoFile,
                        load_all_voices)
    /\ UNCHANGED <<metadata, text_tasks, uploads, voiceUuids, taskUuids>>

(* task_record that keeps a default output_audio field *)
task_record_with_output(task_id, voice_id, text) ==
    [task_id |-> task_id,
     voice_id |-> voice_id,
     text |-> text,
     submit_time |-> strftime,
     status |-> "pending",
     output_audio |-> NoFile]

(* The task object submit_text_task creates *)
task_record(task_id, voice_id, text) ==
    [task_id |-> task_id,
     voice_id |-> voice_id,
     text |-> text,
     submit_time |-> strftime,
     status |-> "pending"]

(* submit_text_task that looks the voice up before it measures the text *)
submit_text_task_voice_first(text_in, voice_id) ==
    LET text == strip(text_in) IN
    /\ UNCHANGED <<metadata, uploads, voiceUuids>>
    /\ IF len(text) = 0 \/ voice_id = NoId
       THEN /\ resp' = Error("submit_text_task", 400, "text and voice_id required")
            /\ UNCHANGED <<text_tasks, taskUuids>>
       ELSE IF ~voice_exists(load_all_voices, voice_id)
       THEN /\ resp' = Error("submit_text_task", 400, "invalid voice_id")
            /\ UNCHANGED <<text_tasks, taskUuids>>
       ELSE IF length_rejected(text)
       THEN /\ resp' = Error("submit_text_task", 400, "text length not in 800..2000")
            /\ UNCHANGED <<text_tasks, taskUuids>>
       ELSE LET task_id == uuid4(taskUuids) IN
            /\ task_id \in TaskIds
            /\ taskUuids' = taskUuids + 1
            /\ text_tasks' = [exists |-> TRUE,
                   data |-> Append(load_tasks,
                                   task_record(task_id, voice_id, text))]
            /\ resp' = Response("submit_text_task", 200, "task submitted",
                                task_id, NoFile, NoFile, <<>>)

(* submit_text_task that numbers the task by its place in the list instead  *)
(* of drawing a uuid4                                                        *)
submit_text_task_numbered(text_in, voice_id) ==
    LET text == strip(text_in) IN
    /\ UNCHANGED <<metadata, uploads, voiceUuids>>
    /\ IF len(text) = 0 \/ voice_id = NoId
       THEN /\ resp' = Error("submit_text_task", 400, "text and voice_id required")
            /\ UNCHANGED <<text_tasks, taskUuids>>
       ELSE IF length_rejected(text)
       THEN /\ resp' = Error("submit_text_task", 400, "text length not in 800..2000")
            /\ UNCHANGED <<text_tasks, taskUuids>>
       ELSE IF ~voice_exists(load_all_voices, voice_id)
       THEN /\ resp' = Error("submit_text_task", 400, "invalid voice_id")
            /\ UNCHANGED <<text_tasks, taskUuids>>
       ELSE LET task_id == Len(load_tasks) + 1 IN
            /\ uuid4(taskUuids) \in TaskIds
            /\ taskUuids' = taskUuids + 1
            /\ text_tasks' = [exists |-> TRUE,
                   data |-> Append(load_tasks,
                                   task_record(task_id, voice_id, text))]
            /\ resp' = Response("submit_text_task", 200, "task submitted",
                                task_id, NoFile, NoFile, <<>>)

(* POST /submit_text_task with JSON {text: text_in, voice_id: voice_id};    *)
(* an absent text is "", an absent or empty voice_id is NoId.               *)
submit_text_task(text_in, voice_id) ==
    LET text == strip(text_in) IN
    /\ UNCHANGED <<metadata, uploads, voiceUuids>>
    /\ IF len(text) = 0 \/ voice_id = NoId
       THEN /\ resp' = Error("submit_text_task", 400, "text and voice_id required")
            /\ UNCHANGED <<text_tasks, taskUuids>>
       ELSE IF length_rejected(text)
       THEN /\ resp' = Error("submit_text_task", 400, "text length not in 800..2000")
            /\ UNCHANGED <<text_tasks, taskUuids>>
       ELSE IF ~voice_exists(load_all_voices, voice_id)
       THEN /\ resp' = Error("submit_text_task", 400, "invalid voice_id")
            /\ UNCHANGED <<text_tasks, taskUuids>>
       ELSE LET task_id == uuid4(taskUuids) IN
            /\ task_id \in TaskIds  \* the model stops issuing ids here
            /\ taskUuids' = taskUuids + 1
            /\ text_tasks' = [exists |-> TRUE,
                   data |-> Append(load_tasks,
                                   task_record(task_id, voice_id, text))]
            /\ resp' = Response("submit_text_task", 200, "task submitted",
                                task_id, NoFile, NoFile, <<>>)

(* complete that sets the status only *)
complete_status_only(tasks, i, filename) ==
    [tasks EXCEPT ![i].status = "completed"]

(* complete that marks every task of the list *)
complete_all(tasks, i, filename) ==
    [n \in 1..Len(tasks) |->
        [k \in DOMAIN tasks[n] \cup {"output_audio"} |->
            IF k = "status" THEN "completed"
            ELSE IF k = "output_audio" THEN filename
            ELSE tasks[n][k]]]

(* task["status"] = "completed"; task["output_audio"] = output_filename,    *)
(* on the first task of the list whose task_id matches                      *)
complete(tasks, i, filename) ==
    [tasks EXCEPT ![i] =
        [k \in DOMAIN tasks[i] \cup {"output_audio"} |->
            IF k = "status" THEN "completed"
            ELSE IF k = "output_audio" THEN filename
            ELSE tasks[i][k]]]

(* synthesize that puts the task back to pending when the engine fails *)
synthesize_marks_failure(tasks, i, task_id, engine_ok) ==
    IF ~engine_ok
    THEN /\ resp' = Error("generate_audio", 500, "engine error")
         /\ text_tasks' = [exists |-> TRUE,
                data |-> [tasks EXCEPT ![i].status = "pending"]]
         /\ UNCHANGED uploads
    ELSE /\ uploads' = uploads \cup {output_filename(task_id)}
         /\ text_tasks' = [exists |-> TRUE,
                data |-> complete(tasks, i, output_filename(task_id))]
         /\ resp' = Response("generate_audio", 200, "audio generated",
                             NoId, output_filename(task_id),
                             download_url(task_id), <<>>)

(* synthesize that persists the completed task before running the engine *)
synthesize_persists_first(tasks, i, task_id, engine_ok) ==
    /\ text_tasks' = [exists |-> TRUE,
           data |-> complete(tasks, i, output_filename(task_id))]
    /\ IF ~engine_ok
       THEN /\ resp' = Error("generate_audio", 500, "engine error")
            /\ UNCHANGED uploads
       ELSE /\ uploads' = uploads \cup {output_filename(task_id)}
            /\ resp' = Response("generate_audio", 200, "audio generated",
                                NoId, output_filename(task_id),
                                download_url(task_id), <<>>)

(* The try block of generate_audio, for the task at index i.  engine_ok:   *)
(* pyttsx3 ran without raising and wrote output_path; otherwise it raised  *)
(* (as pyttsx3.init() does without a speech driver) and wrote nothing.     *)
\* A variant of synthesize that writes the audio file and answers 200 but
\* never writes the task collection back.
synthesize_drops_result(tasks, i, task_id, engine_ok) ==
    IF ~engine_ok
    THEN /\ resp' = Error("generate_audio", 500, "engine error")
         /\ UNCHANGED <<text_tasks, uploads>>
    ELSE /\ uploads' = uploads \cup {output_filename(task_id)}
         /\ UNCHANGED text_tasks
         /\ resp' = Response("generate_audio", 200, "audio generated",
                             NoId, output_filename(task_id),
                             download_url(task_id), <<>>)

synthesize(tasks, i, task_id, engine_ok) ==
    IF ~engine_ok
    THEN /\ resp' = Error("generate_audio", 500, "engine error")
         /\ UNCHANGED <<text_tasks, uploads>>
    ELSE /\ uploads' = uploads \cup {output_filename(task_id)}
         /\ text_tasks' = [exists |-> TRUE,
                data |-> complete(tasks, i, output_filename(task_id))]
         /\ resp' = Response("generate_audio", 200, "audio generated",
                             NoId, output_filename(task_id),
                             download_url(task_id), <<>>)

(* generate_audio that runs the engine before it looks the task up *)
generate_audio_engine_first(task_id, engine_ok) ==
    /\ UNCHANGED <<metadata, voiceUuids, taskUuids>>
    /\ IF task_id = NoId
       THEN /\ resp' = Error("generate_audio", 400, "missing task_id")
            /\ UNCHANGED <<text_tasks, uploads>>
       ELSE IF ~text_tasks.exists
       THEN /\ resp' = Error("generate_audio", 400, "task list is empty")
            /\ UNCHANGED <<text_tasks, uploads>>
       ELSE LET tasks == text_tasks.data
                i == FirstIndex(tasks, task_id)
            IN IF i = 0
               THEN /\ resp' = Error("generate_audio", 404, "task not found")
                    /\ uploads' = IF engine_ok
                                  THEN uploads \cup {output_filename(task_id)}
                                  ELSE uploads
                    /\ UNCHANGED text_tasks
               ELSE synthesize(tasks, i, task_id, engine_ok)

(* POST /generate_audio with JSON {task_id} *)
generate_audio(task_id, engine_ok) ==
    /\ UNCHANGED <<metadata, voiceUuids, taskUuids>>
    /\ IF task_id = NoId
       THEN /\ resp' = Error("generate_audio", 400, "missing task_id")
            /\ UNCHANGED <<text_tasks, uploads>>
       ELSE IF ~text_tasks.exists
       THEN /\ resp' = Error("generate_audio", 400, "task list is empty")
            /\ UNCHANGED <<text_tasks, uploads>>
       ELSE LET tasks == text_tasks.data
                i == FirstIndex(tasks, task_id)
            IN IF i = 0
               THEN /\ resp' = Error("generate_audio", 404, "task not found")
                    /\ UNCHANGED <<text_tasks, uploads>>
               ELSE synthesize(tasks, i, task_id, engine_ok)

(* t.get("output_audio"): the field's value, None (NoFile) when absent *)
get_output_audio(t) ==
    IF "output_audio" \in DOMAIN t THEN t.output_audio ELSE NoFile

(* get_audio that answers 400 when there is no collection, as              *)
(* generate_audio does                                                      *)
get_audio_bad_request(task_id) ==
    /\ UNCHANGED <<metadata, text_tasks, uploads, voiceUuids, taskUuids>>
    /\ IF ~text_tasks.exists
       THEN resp' = Error("get_audio", 400, "no task records")
       ELSE LET tasks == text_tasks.data
                i == FirstIndex(tasks, task_id)
            IN IF i = 0 \/ (i # 0 /\ tasks[i].status # "completed")
               THEN resp' = Error("get_audio", 404, "task not completed or not found")
               ELSE LET filename == get_output_audio(tasks[i])
                    IN IF filename = NoFile \/ filename \notin uploads
                       THEN resp' = Error("get_audio", 404, "audio file missing")
                       ELSE resp' = Response("get_audio", 200, "attachment",
                                             NoId, filename, NoFile, <<>>)

(* GET /get_audio/<task_id> *)
get_audio(task_id) ==
    /\ UNCHANGED <<metadata, text_tasks, uploads, voiceUuids, taskUuids>>
    /\ IF ~text_tasks.exists
       THEN resp' = Error("get_audio", 404, "no task records")
       ELSE LET tasks == text_tasks.data
                i == FirstIndex(tasks, task_id)
            IN IF i = 0 \/ (i # 0 /\ tasks[i].status # "completed")
               THEN resp' = Error("get_audio", 404, "task not completed or not found")
               ELSE LET filename == get_output_audio(tasks[i])
                    IN IF filename = NoFile \/ filename \notin uploads
                       THEN resp' = Error("get_audio", 404, "audio file missing")
                       ELSE resp' = Response("get_audio", 200, "attachment",
                                             NoId, filename, NoFile, <<>>)

(* list_text_tasks that lists the newest task first *)
list_text_tasks_newest_first ==
    /\ resp' = Response("list_text_tasks", 200, "ok", NoId, NoFile, NoFile,
                        [i \in 1..Len(load_tasks) |->
                            load_tasks[Len(load_tasks) + 1 - i]])
    /\ UNCHANGED <<metadata, text_tasks, uploads, voiceUuids, taskUuids>>

(* GET /list_text_tasks *)
list_text_tasks ==
    /\ resp' = Response("list_text_tasks", 200, "ok", NoId, NoFile, NoFile,
                        load_tasks)
    /\ UNCHANGED <<metadata, text_tasks, uploads, voiceUuids, taskUuids>>

(* removed_files that removes nothing *)
removed_files_none(tasks, task_id) == {}

(* removed_files that takes the output_audio of every record of the list *)
removed_files_every_artifact(tasks, task_id) ==
    {get_output_audio(tasks[i]) : i \in
        {j \in 1..Len(tasks) : get_output_audio(tasks[j]) # NoFile}}

(* The files delete_task removes: the output_audio of every record whose    *)
(* task_id matches, when it is set                                          *)
removed_files(tasks, task_id) ==
    {get_output_audio(tasks[i]) : i \in
        {j \in 1..Len(tasks) : /\ tasks[j].task_id = task_id
                               /\ get_output_audio(tasks[j]) # NoFile}}

(* delete_task that also removes the voices the deleted tasks are bound to *)
delete_task_cascades_voice(task_id) ==
    /\ UNCHANGED <<voiceUuids, taskUuids>>
    /\ IF ~text_tasks.exists
       THEN /\ resp' = Error("delete_task", 404, "task list does not exist")
            /\ UNCHANGED <<metadata, text_tasks, uploads>>
       ELSE LET tasks == text_tasks.data
                bound == {tasks[i].voice_id : i \in
                             {j \in 1..Len(tasks) : tasks[j].task_id = task_id}}
                kept(v) == v.id \notin bound
            IN /\ uploads' = uploads \ removed_files(tasks, task_id)
               /\ text_tasks' = [exists |-> TRUE,
                                 data |-> SelectNotId(tasks, task_id)]
               /\ metadata' = [metadata EXCEPT
                                  !.data = SelectSeq(metadata.data, kept)]
               /\ resp' = Response("delete_task", 200, "task deleted", task_id,
                                   NoFile, NoFile, <<>>)

(* delete_task that also answers 404 when the collection holds no task *)
delete_task_empty_not_found(task_id) ==
    /\ UNCHANGED <<metadata, voiceUuids, taskUuids>>
    /\ IF ~text_tasks.exists \/ text_tasks.data = <<>>
       THEN /\ resp' = Error("delete_task", 404, "task list does not exist")
            /\ UNCHANGED <<text_tasks, uploads>>
       ELSE LET tasks == text_tasks.data
            IN /\ uploads' = uploads \ removed_files(tasks, task_id)
               /\ text_tasks' = [exists |-> TRUE,
                                 data |-> SelectNotId(tasks, task_id)]
               /\ resp' = Response("delete_task", 200, "task deleted", task_id,
                                   NoFile, NoFile, <<>>)

(* DELETE /delete_task/<task_id> *)
delete_task(task_id) ==
    /\ UNCHANGED <<metadata, voiceUuids, taskUuids>>
    /\ IF ~text_tasks.exists
       THEN /\ resp' = Error("delete_task", 404, "task list does not exist")
            /\ UNCHANGED <<text_tasks, uploads>>
       ELSE LET tasks == text_tasks.data
            IN /\ uploads' = uploads \ removed_files(tasks, task_id)
               /\ text_tasks' = [exists |-> TRUE,
                                 data |-> SelectNotId(tasks, task_id)]
               /\ resp' = Response("delete_task", 200, "task deleted", task_id,
                                   NoFile, NoFile, <<>>)

---------------------------------------------------------------------------
\* The requests POST /upload_audio is given: without a file, with a file
\* that does not decode, with a file of some measured duration
UploadRequests ==
    {[has_file |-> FALSE, f |-> f, decodes |-> FALSE, duration |-> 0] :
        f \in {CHOOSE g \in UploadNames : TRUE}}
    \cup {[has_file |-> TRUE, f |-> f, decodes |-> FALSE, duration |-> 0] :
        f \in UploadNames}
    \cup {[has_file |-> TRUE, f |-> f, decodes |-> TRUE, duration |-> d] :
        f \in UploadNames, d \in Durations}

UploadAudio ==
    /\ UNCHANGED calls
    /\ \E r \in UploadRequests :
        upload_audio(r.has_file, r.f, r.decodes, r.duration)

ListVoices == list_voices /\ UNCHANGED calls

SubmitTextTask ==
    /\ UNCHANGED calls
    /\ \E text_in \in Texts, voice_id \in RequestVoiceIds :
        submit_text_task(text_in, voice_id)

GenerateAudio ==
    /\ UNCHANGED calls
    /\ \E task_id \in RequestTaskIds, engine_ok \in BOOLEAN :
        generate_audio(task_id, engine_ok)

GetAudio == UNCHANGED calls /\ \E task_id \in TaskIds : get_audio(task_id)

ListTextTasks == list_text_tasks /\ UNCHANGED calls

DeleteTask == UNCHANGED calls /\ \E task_id \in TaskIds : delete_task(task_id)

Next ==
    \/ UploadAudio
    \/ ListVoices
    \/ SubmitTextTask
    \/ GenerateAudio
    \/ GetAudio
    \/ ListTextTasks
    \/ DeleteTask

Spec == Init /\ [][Next]_vars

\* The behaviours of Spec once more: the claims that speak of every step of
\* every handler (C4, C9, C16, C25) are stated under this name and model
\* checked in a run of their own.
SpecSerial == Init /\ [][Next]_vars

---------------------------------------------------------------------------
(* submit_text_task as a thread of the server (app.run serves each request  *)
(* in its own thread): the validation, the read of text_tasks.json and the  *)
(* write of text_tasks.json are separate steps, and the steps of two calls  *)
(* interleave.                                                              *)

(* app.py 106-130: the request is validated and the task object is built *)
submit_begin(p, text_in, voice_id) ==
    LET text == strip(text_in)
        refuse(msg) ==
            /\ calls' = [calls EXCEPT ![p].pc = "done",
                             ![p].resp = Error("submit_text_task", 400, msg)]
            /\ UNCHANGED taskUuids
    IN
    /\ calls[p].pc = "idle"
    /\ UNCHANGED <<metadata, text_tasks, uploads, voiceUuids, resp>>
    /\ IF len(text) = 0 \/ voice_id = NoId
       THEN refuse("text and voice_id required")
       ELSE IF length_rejected(text)
       THEN refuse("text length not in 800..2000")
       ELSE IF ~voice_exists(load_all_voices, voice_id)
       THEN refuse("invalid voice_id")
       ELSE LET task_id == uuid4(taskUuids) IN
            /\ task_id \in TaskIds  \* the model stops issuing ids here
            /\ taskUuids' = taskUuids + 1
            /\ calls' = [calls EXCEPT ![p].pc = "read",
                   ![p].task_record = task_record(task_id, voice_id, text)]

(* app.py 133-137: tasks = json.load(f), or [] when there is no file *)
submit_read(p) ==
    /\ calls[p].pc = "read"
    /\ calls' = [calls EXCEPT ![p].pc = "write", ![p].tasks = load_tasks]
    /\ UNCHANGED <<metadata, text_tasks, uploads, voiceUuids, taskUuids, resp>>

(* submit_write that reads the collection again right before it writes *)
submit_write_rereads(p) ==
    /\ calls[p].pc = "write"
    /\ text_tasks' = [exists |-> TRUE,
           data |-> Append(load_tasks, calls[p].task_record)]
    /\ calls' = [calls EXCEPT ![p].pc = "done",
           ![p].resp = Response("submit_text_task", 200, "task submitted",
                                calls[p].task_record.task_id,
                                NoFile, NoFile, <<>>)]
    /\ UNCHANGED <<metadata, uploads, voiceUuids, taskUuids, resp>>

(* app.py 139-143: tasks.append(task_record), json.dump(tasks, f), return *)
submit_write(p) ==
    /\ calls[p].pc = "write"
    /\ text_tasks' = [exists |-> TRUE,
           data |-> Append(calls[p].tasks, calls[p].task_record)]
    /\ calls' = [calls EXCEPT ![p].pc = "done",
           ![p].resp = Response("submit_text_task", 200, "task submitted",
                                calls[p].task_record.task_id,
                                NoFile, NoFile, <<>>)]
    /\ UNCHANGED <<metadata, uploads, voiceUuids, taskUuids, resp>>

SubmitBegin ==
    \E p \in Callers, text_in \in Texts, voice_id \in RequestVoiceIds :
        submit_begin(p, text_in, voice_id)

SubmitRead == \E p \in Callers : submit_read(p)

SubmitWrite == \E p \in Callers : submit_write(p)

\* The state after one accepted upload: a voice is stored, no task was ever
\* submitted, no call has started
InitRace ==
    \E f \in UploadNames, duration \in {min_sec, max_sec} :
        /\ metadata = [exists |-> TRUE,
               data |-> <<[id |-> uuid4(0),
                           filename |-> processed_path(f),
                           duration |-> duration,
                           upload_time |-> strftime,
                           path |-> processed_path(f)]>>]
        /\ uploads = {original_path(f), processed_path(f)}
        /\ voiceUuids = 1
        /\ text_tasks = [exists |-> FALSE, data |-> <<>>]
        /\ taskUuids = 0
        /\ resp = Response("upload_audio", 200, "uploaded", uuid4(0),
                           NoFile, NoFile, <<>>)
        /\ calls = [p \in Callers |-> IdleCall]

NextRace ==
    \/ SubmitBegin
    \/ SubmitRead
    \/ SubmitWrite

SpecRace == InitRace /\ [][NextRace]_vars

---------------------------------------------------------------------------
(* Vocabulary of the properties, stated on the stored data directly *)

\* The records of the task collection (none when there is no collection)
TaskRecords == IF text_tasks.exists THEN text_tasks.data ELSE <<>>

\* The positions of the task collection that hold task id
Positions(tasks, id) == {i \in 1..Len(tasks) : tasks[i].task_id = id}

\* id is the id of a voice of the voice collection
VoicePresent(id) ==
    /\ metadata.exists
    /\ \E i \in 1..Len(metadata.data) : metadata.data[i].id = id

\* The length of a text once its surrounding whitespace is removed
StrippedLength(t) == t.body

\* The text once its surrounding whitespace is removed
Stripped(t) == [lead |-> 0, body |-> t.body, trail |-> 0]

\* The texts submit_text_task has to accept: stripped length in [800, 2000]
AcceptableTexts ==
    {t \in Texts : MinChars <= StrippedLength(t) /\ StrippedLength(t) <= MaxChars}

\* After a successful submit of (text, voice_id): the response carries a task
\* id held by exactly one record, which is pending, without artifact, bound
\* to voice_id and carries `text`
Submitted(text, voice_id) ==
    /\ resp'.code = 200
    /\ resp'.id # NoId
    /\ text_tasks'.exists
    /\ Cardinality(Positions(text_tasks'.data, resp'.id)) = 1
    /\ \A i \in Positions(text_tasks'.data, resp'.id) :
        LET t == text_tasks'.data[i] IN
        /\ t.text = text
        /\ t.voice_id = voice_id
        /\ t.status = "pending"
        /\ "output_audio" \notin DOMAIN t

\* C1 as stated: every submit of a text whose stripped length is in
\* [800, 2000] with a present voice id succeeds, and the collection then holds
\* exactly one record with the returned id, carrying the submitted text and
\* voice id, pending and without output artifact.
C1_SubmittedTextStoredVerbatim ==
    [][\A text_in \in AcceptableTexts, voice_id \in RequestVoiceIds :
        (VoicePresent(voice_id) /\ submit_text_task(text_in, voice_id))
            => Submitted(text_in, voice_id)]_vars

\* C1 amended: as C1, but the record carries the submitted text with its
\* surrounding whitespace stripped.
C1_SubmitStoresStrippedText ==
    \A text_in \in AcceptableTexts, voice_id \in RequestVoiceIds :
        VoicePresent(voice_id) =>
            ~ENABLED (/\ submit_text_task(text_in, voice_id)
                      /\ ~Submitted(Stripped(text_in), voice_id))

\* A submit has just succeeded and its pending task is in the collection.
C1_Witness ==
    /\ resp.op = "submit_text_task"
    /\ resp.code = 200
    /\ \E i \in Positions(TaskRecords, resp.id) :
        /\ TaskRecords[i].status = "pending"
        /\ len(TaskRecords[i].text) = MinChars

\* len() of the text as submitted, surrounding whitespace included
RawLength(t) == t.lead + t.body + t.trail

\* The response is one of submit_text_task's two validation errors
ValidationError(r) ==
    /\ r.code = 400
    /\ r.msg \in {"text and voice_id required", "text length not in 800..2000"}

Refusable(text_in, voice_id) ==
    \/ StrippedLength(text_in) = 0
    \/ voice_id = NoId
    \/ StrippedLength(text_in) < MinChars
    \/ StrippedLength(text_in) > MaxChars
    \/ ~VoicePresent(voice_id)

\* C3: a submit with empty or whitespace-only text, absent voice id, text
\* length outside [800, 2000] or a voice id not in the voice collection is
\* refused, and a refused submit leaves the task collection (its existence
\* included), the voice collection and the files as they were.
C3_RefusedSubmitWritesNothing ==
    \A text_in \in Texts, voice_id \in RequestVoiceIds :
        ~ENABLED (/\ submit_text_task(text_in, voice_id)
                  /\ \/ /\ Refusable(text_in, voice_id)
                        /\ resp'.code = 200
                     \/ /\ resp'.code # 200
                        /\ ~(UNCHANGED <<metadata, text_tasks, uploads>>))

\* A submit has just been refused for its voice id while no task collection
\* exists.
C3_Witness ==
    /\ resp.op = "submit_text_task"
    /\ resp.msg = "invalid voice_id"
    /\ ~text_tasks.exists

---------------------------------------------------------------------------
\* The task ids held by the task collection
PresentIds == {TaskRecords[i].task_id : i \in 1..Len(TaskRecords)}

\* The name the artifact of task id has to carry: '<id>_output.wav'
ArtifactName(id) == <<"", id, "_output.wav">>

\* Some step changes the status of a task that exists before and after it
\* otherwise than pending -> completed by generate_audio
ForbiddenStatusChange ==
    \E i \in 1..Len(TaskRecords), j \in 1..Len(TaskRecords') :
        /\ TaskRecords[i].task_id = TaskRecords'[j].task_id
        /\ TaskRecords[i].status # TaskRecords'[j].status
        /\ ~(/\ TaskRecords[i].status = "pending"
             /\ TaskRecords'[j].status = "completed"
             /\ resp'.op = "generate_audio"
             /\ resp'.code = 200)

\* C4: with handlers run one at a time, the only status change a task
\* undergoes is pending -> completed, made by a successful generate; a
\* completed task is completed after every step in which it still exists.
C4_OnlyPendingToCompleted ==
    ~ENABLED (Next /\ text_tasks' # text_tasks /\ ForbiddenStatusChange)

\* A generate has just failed while a completed task is in the collection.
C4_Witness ==
    /\ resp.op = "generate_audio"
    /\ resp.code = 500
    /\ \E i \in 1..Len(TaskRecords) : TaskRecords[i].status = "completed"

\* C5: in every reachable state a task record has an output_audio field
\* (holding an artifact name) if and only if its status is 'completed'.
C5_ArtifactIffCompleted ==
    \A i \in 1..Len(TaskRecords) :
        /\ TaskRecords[i].status \in {"pending", "completed"}
        /\ ("output_audio" \in DOMAIN TaskRecords[i])
               <=> (TaskRecords[i].status = "completed")
        /\ "output_audio" \in DOMAIN TaskRecords[i]
               => TaskRecords[i].output_audio # NoFile

\* The collection holds a completed task next to a pending one.
C5_Witness ==
    /\ \E i \in 1..Len(TaskRecords) : TaskRecords[i].status = "completed"
    /\ \E i \in 1..Len(TaskRecords) : TaskRecords[i].status = "pending"

\* C6: when the engine fails during generate of a task of the collection,
\* generate answers with a synthesis failure (500) and the persisted task
\* collection is unchanged; and in every state a generate of that task on
\* which the engine succeeds is accepted, whatever failed before.
C6_FailedSynthesisKeepsTasks ==
    \A task_id \in PresentIds :
        /\ ~ENABLED (/\ generate_audio(task_id, FALSE)
                     /\ ~(/\ resp'.code = 500
                          /\ resp'.msg = "engine error"
                          /\ text_tasks' = text_tasks))
        /\ ~ENABLED (/\ generate_audio(task_id, TRUE)
                     /\ resp'.code # 200)

\* A generate has just failed and the collection holds a pending task
\* without artifact.
C6_Witness ==
    /\ resp.op = "generate_audio"
    /\ resp.code = 500
    /\ \E i \in 1..Len(TaskRecords) :
        /\ TaskRecords[i].status = "pending"
        /\ "output_audio" \notin DOMAIN TaskRecords[i]

\* The record t, completed with the artifact name of its task
Completed(t) ==
    /\ t.status = "completed"
    /\ "output_audio" \in DOMAIN t
    /\ t.output_audio = ArtifactName(t.task_id)

\* After a successful generate of task_id: the answer names the artifact and
\* the locator, the task's record is completed with that artifact and keeps
\* its other fields, and every other record is as it was
Generated(task_id) ==
    /\ resp'.code = 200
    /\ resp'.audio_file = ArtifactName(task_id)
    /\ resp'.url = <<"/get_audio/", task_id>>
    /\ text_tasks'.exists
    /\ Len(text_tasks'.data) = Len(text_tasks.data)
    /\ \A i \in 1..Len(text_tasks.data) :
        LET old == text_tasks.data[i]
            new == text_tasks'.data[i]
        IN IF old.task_id = task_id
           THEN /\ Completed(new)
                /\ new.task_id = task_id
                /\ new.voice_id = old.voice_id
                /\ new.text = old.text
                /\ new.submit_time = old.submit_time
           ELSE new = old

\* C7: a generate of a task of the collection on which the engine succeeds
\* leaves that task completed with output artifact '<taskId>_output.wav',
\* returns that name and the locator '/get_audio/<taskId>', and leaves every
\* other task record unchanged.
C7_GenerateCompletesOnlyItsTask ==
    \A task_id \in PresentIds :
        ~ENABLED (generate_audio(task_id, TRUE) /\ ~Generated(task_id))

\* A generate has just succeeded while another task of the collection is
\* still pending.
C7_Witness ==
    /\ resp.op = "generate_audio"
    /\ resp.code = 200
    /\ \E i, j \in 1..Len(TaskRecords) :
        /\ TaskRecords[i].status = "completed"
        /\ TaskRecords[i].output_audio = resp.audio_file
        /\ TaskRecords[j].status = "pending"

\* The ids of the tasks a successful generate has completed
CompletedIds ==
    {TaskRecords[i].task_id :
        i \in {j \in 1..Len(TaskRecords) : TaskRecords[j].status = "completed"}}

\* C8: a successful generate of a task that an earlier successful generate
\* completed returns the output artifact the task already has and leaves the
\* task collection and the set of files as they were.
C8_RegenerateIsIdempotent ==
    \A task_id \in CompletedIds :
        ~ENABLED (/\ generate_audio(task_id, TRUE)
                  /\ ~(/\ resp'.code = 200
                       /\ \A i \in Positions(TaskRecords, task_id) :
                            resp'.audio_file = TaskRecords[i].output_audio
                       /\ text_tasks' = text_tasks
                       /\ uploads' = uploads))

\* A generate has just completed a task, and a second successful generate of
\* that task can follow.
C8_Witness ==
    /\ resp.op = "generate_audio"
    /\ resp.code = 200
    /\ \E task_id \in CompletedIds :
        /\ resp.audio_file = ArtifactName(task_id)
        /\ ENABLED (generate_audio(task_id, TRUE) /\ resp'.code = 200)

---------------------------------------------------------------------------
\* The output artifacts recorded for task id in the collection
RecordedArtifacts(id) ==
    {TaskRecords[i].output_audio :
        i \in {j \in Positions(TaskRecords, id) :
                  "output_audio" \in DOMAIN TaskRecords[j]}}

\* The ids of the tasks whose record carries an output artifact
IdsWithArtifact == {id \in PresentIds : RecordedArtifacts(id) # {}}

\* C9: delete_task of a task that has an output artifact removes the task's
\* record and the artifact file; a task id that was issued and is no longer
\* in the collection never comes back, and get_audio for an id that is not in
\* the collection answers 404.
C9_DeleteRemovesRecordAndArtifact ==
    /\ \A task_id \in IdsWithArtifact :
        ~ENABLED (/\ delete_task(task_id)
                  /\ ~(/\ resp'.code = 200
                       /\ task_id \notin PresentIds'
                       /\ RecordedArtifacts(task_id) \cap uploads' = {}))
    /\ ~ENABLED (/\ Next
                 /\ text_tasks' # text_tasks
                 /\ \E task_id \in (1..taskUuids) \ PresentIds :
                        task_id \in PresentIds')
    /\ \A task_id \in (1..taskUuids) \ PresentIds :
        ~ENABLED (get_audio(task_id) /\ resp'.code # 404)

\* A task whose artifact is recorded and stored is deleted by the next step,
\* record and file, and a get_audio has just answered 404 while an issued
\* task id is gone.
C9_Witness ==
    /\ \E task_id \in IdsWithArtifact :
        /\ ArtifactName(task_id) \in uploads
        /\ ENABLED (/\ delete_task(task_id)
                    /\ resp'.code = 200
                    /\ task_id \notin PresentIds'
                    /\ ArtifactName(task_id) \notin uploads')
    /\ resp.op = "get_audio"
    /\ resp.code = 404
    /\ (1..taskUuids) \ PresentIds # {}

\* The records of tasks other than task id, in their order
OtherRecords(tasks, id) ==
    LET Other(t) == t.task_id # id IN SelectSeq(tasks, Other)

\* C10: delete_task(id) on an existing collection answers success, removes
\* exactly the records with that id keeping the others in order, removes no
\* file but that task's artifact, and leaves the voice collection unchanged;
\* when id is not in the collection, the collection and the files are
\* unchanged.
C10_DeleteTouchesOnlyItsTask ==
    text_tasks.exists =>
        \A task_id \in TaskIds :
            ~ENABLED (/\ delete_task(task_id)
                      /\ ~(/\ resp'.code = 200
                           /\ text_tasks'.exists
                           /\ text_tasks'.data = OtherRecords(text_tasks.data, task_id)
                           /\ uploads' \subseteq uploads
                           /\ uploads \ uploads' \subseteq {ArtifactName(task_id)}
                           /\ metadata' = metadata
                           /\ task_id \notin PresentIds =>
                                /\ text_tasks' = text_tasks
                                /\ uploads' = uploads))

\* A delete has just succeeded and left another, completed task with its
\* artifact file in place.
C10_Witness ==
    /\ resp.op = "delete_task"
    /\ resp.code = 200
    /\ resp.id \notin PresentIds
    /\ resp.id \in 1..taskUuids
    /\ \E id \in IdsWithArtifact : RecordedArtifacts(id) \subseteq uploads

---------------------------------------------------------------------------
\* C11: delete_task answers NotFound (404) exactly when no task collection
\* exists, which is the case exactly while no task was ever persisted, and
\* then it creates no collection and removes no file; once the collection
\* exists, also when it is empty, delete_task answers success for any id and
\* the collection stays.
C11_DeleteNotFoundIffNoCollection ==
    /\ text_tasks.exists <=> taskUuids > 0
    /\ \A task_id \in TaskIds :
        ~ENABLED (/\ delete_task(task_id)
                  /\ ~(IF text_tasks.exists
                       THEN /\ resp'.code = 200
                            /\ text_tasks'.exists
                       ELSE /\ resp'.code = 404
                            /\ ~text_tasks'.exists
                            /\ uploads' = uploads))

\* A delete has just emptied the collection, which still exists, and a delete
\* of any id is answered with success.
C11_Witness ==
    /\ resp.op = "delete_task"
    /\ resp.code = 200
    /\ text_tasks.exists
    /\ text_tasks.data = <<>>
    /\ resp.id \in 1..taskUuids
    /\ \A task_id \in TaskIds : ENABLED (delete_task(task_id) /\ resp'.code = 200)

\* The artifacts get_audio may serve for task id: the output artifact of a
\* completed record of that id whose file is present in uploads/
Fetchable(id) ==
    {TaskRecords[i].output_audio :
        i \in {j \in Positions(TaskRecords, id) :
                  /\ TaskRecords[j].status = "completed"
                  /\ "output_audio" \in DOMAIN TaskRecords[j]
                  /\ TaskRecords[j].output_audio \in uploads}}

---------------------------------------------------------------------------
\* C13 as stated: generate_audio of a task id that is not the id of a task,
\* whether the task collection is missing or exists without that id, answers
\* NotFound (404), writes no artifact file and leaves the task collection
\* unchanged.
C13_UnknownTaskIsNotFound ==
    [][\A task_id \in TaskIds, engine_ok \in BOOLEAN :
        (task_id \notin PresentIds /\ generate_audio(task_id, engine_ok)) =>
            /\ resp'.code = 404
            /\ uploads' = uploads
            /\ text_tasks' = text_tasks]_vars

\* C13 amended: generate_audio of a task id that is not the id of a task is
\* refused, with 400 'task list is empty' when the task collection is
\* missing and with NotFound (404) when the collection exists without that
\* id; either way the answer is not the engine's, no artifact file is written
\* and the task collection is unchanged.
C13_UnknownTaskIsRefused ==
    \A task_id \in TaskIds \ PresentIds, engine_ok \in BOOLEAN :
        ~ENABLED (/\ generate_audio(task_id, engine_ok)
                  /\ ~(/\ IF text_tasks.exists
                          THEN /\ resp'.code = 404
                               /\ resp'.msg = "task not found"
                          ELSE /\ resp'.code = 400
                               /\ resp'.msg = "task list is empty"
                       /\ resp'.audio_file = NoFile
                       /\ uploads' = uploads
                       /\ text_tasks' = text_tasks))

\* A generate has just been answered 404 for an id that is not in the
\* collection, which holds another task.
C13_Witness ==
    /\ resp.op = "generate_audio"
    /\ resp.code = 404
    /\ text_tasks.exists
    /\ PresentIds # {}
    /\ TaskIds \ PresentIds # {}

---------------------------------------------------------------------------
\* The uploads that pass every check of upload_audio
AcceptableUploads ==
    {r \in UploadRequests :
        r.has_file /\ r.decodes /\ min_sec <= r.duration /\ r.duration <= max_sec}

\* C14: an upload whose request also carries a requested id (the form field
\* custom_id, which upload_audio does not read) fails and leaves the voice
\* collection unchanged when that id is the id of a stored voice, and
\* otherwise succeeds with a voice that carries exactly the requested id.
C14_RequestedVoiceIdHonoured ==
    [][\A custom_id \in 1..(NumVoiceIds + 1), r \in AcceptableUploads :
        upload_audio(r.has_file, r.f, r.decodes, r.duration) =>
            IF VoicePresent(custom_id)
            THEN /\ resp'.code # 200
                 /\ metadata' = metadata
            ELSE /\ resp'.code = 200
                 /\ resp'.id = custom_id
                 /\ metadata'.data[Len(metadata'.data)].id = custom_id]_vars

\* C15: a submit whose request also carries a requested task id (the JSON
\* field custom_task_id, which submit_text_task does not read) is rejected
\* and leaves the task collection unchanged when that id is in the
\* collection, and otherwise succeeds with a task that carries exactly the
\* requested id.
C15_RequestedTaskIdHonoured ==
    [][\A custom_task_id \in 1..(NumTaskIds + 1), text_in \in AcceptableTexts,
          voice_id \in RequestVoiceIds :
        (VoicePresent(voice_id) /\ submit_text_task(text_in, voice_id)) =>
            IF custom_task_id \in PresentIds
            THEN /\ resp'.code # 200
                 /\ text_tasks' = text_tasks
            ELSE /\ resp'.code = 200
                 /\ resp'.id = custom_task_id
                 /\ text_tasks'.data[Len(text_tasks'.data)].task_id
                        = custom_task_id]_vars

---------------------------------------------------------------------------
\* The records of the voice collection (none when there is no collection)
VoiceRecords == IF metadata.exists THEN metadata.data ELSE <<>>

\* The task ids issued so far: the ids of the tasks that exist or existed
IssuedTaskIds == 1..taskUuids

---------------------------------------------------------------------------
\* The uploads whose file decodes, whatever its duration
DecodedUploads == {r \in UploadRequests : r.has_file /\ r.decodes}

\* C17: an upload whose file decodes is stored only when the measured
\* duration lies in [5, 30]: with 5, 30 or a duration between them the upload
\* succeeds and the stored voice carries the measured duration; with any
\* duration below 5 or above 30 it fails and the voice collection is
\* unchanged; every stored voice has a duration within [5, 30].
C17_DurationWithinClosedInterval ==
    /\ \A i \in 1..Len(VoiceRecords) :
        5 <= VoiceRecords[i].duration /\ VoiceRecords[i].duration <= 30
    /\ \A r \in DecodedUploads :
        ~ENABLED (/\ upload_audio(r.has_file, r.f, r.decodes, r.duration)
                  /\ ~(IF 5 <= r.duration /\ r.duration <= 30
                       THEN /\ resp'.code = 200
                            /\ Len(metadata'.data) = Len(VoiceRecords) + 1
                            /\ metadata'.data[Len(metadata'.data)].duration
                                   = r.duration
                            /\ SubSeq(metadata'.data, 1, Len(VoiceRecords))
                                   = VoiceRecords
                       ELSE /\ resp'.code # 200
                            /\ metadata' = metadata))

\* An upload has just been refused for its duration while a voice of exactly
\* 30 seconds is stored.
C17_Witness ==
    /\ resp.op = "upload_audio"
    /\ resp.msg = "duration out of range"
    /\ \E i \in 1..Len(VoiceRecords) : VoiceRecords[i].duration = 30

\* The uploads upload_audio rejects after it received the file: the file
\* does not decode, or its duration is outside [5, 30]
RejectedUploads ==
    {r \in UploadRequests :
        /\ r.has_file
        /\ ~r.decodes \/ r.duration < 5 \/ r.duration > 30}

\* C18: when an upload is rejected because normalization fails or the
\* duration is out of range, the sample is discarded: neither the uploaded
\* source file nor its normalized copy remains, the set of stored files is
\* the set before the call.
C18_RejectedUploadLeavesNoFile ==
    [][\A r \in RejectedUploads :
        upload_audio(r.has_file, r.f, r.decodes, r.duration) =>
            /\ resp'.code # 200
            /\ uploads' = uploads]_vars

---------------------------------------------------------------------------
\* The answer the ordered checks of a submit owe to (text_in, voice_id):
\* emptiness first, then length, then the voice reference
FirstFailingCheck(text_in, voice_id) ==
    IF StrippedLength(text_in) = 0 \/ voice_id = NoId
    THEN "text and voice_id required"
    ELSE IF StrippedLength(text_in) < 800 \/ StrippedLength(text_in) > 2000
    THEN "text length not in 800..2000"
    ELSE IF ~VoicePresent(voice_id)
    THEN "invalid voice_id"
    ELSE "task submitted"

---------------------------------------------------------------------------
\* The call of caller p has returned success
Succeeded(p) == calls[p].pc = "done" /\ calls[p].resp.code = 200

\* The task id the call of caller p returned
ReturnedId(p) == calls[p].resp.id

\* The call of q read the collection after the call of p wrote it: the list
\* q read holds the task of p
ReadAfterWriteOf(q, p) ==
    \E i \in 1..Len(calls[q].tasks) :
        calls[q].tasks[i].task_id = ReturnedId(p)

\* The two calls were serialized at the collection: one read what the other
\* wrote
Serialized ==
    \E p, q \in Callers : p # q /\ ReadAfterWriteOf(q, p)

\* The callers whose task is in the task collection
Kept == {p \in Callers : ReturnedId(p) \in PresentIds}

\* C20: when two submit_text_task calls interleaved at the read and the
\* write of the task collection have both returned success, their task ids
\* are distinct; if the calls were serialized (one read after the other
\* wrote) both tasks are in the collection, and if both read before either
\* wrote the collection holds only one of the two tasks, the later write
\* having overwritten the earlier one.
C20_InterleavedSubmitLosesUpdate ==
    (\A p \in Callers : Succeeded(p)) =>
        /\ \A p, q \in Callers : p # q => ReturnedId(p) # ReturnedId(q)
        /\ IF Serialized
           THEN Kept = Callers /\ Len(TaskRecords) = 2
           ELSE Cardinality(Kept) = 1 /\ Len(TaskRecords) = 1

\* Both calls have returned success with distinct task ids and the
\* collection holds only one of the two tasks.
C20_Witness ==
    /\ \A p \in Callers : Succeeded(p)
    /\ \A p, q \in Callers : p # q => ReturnedId(p) # ReturnedId(q)
    /\ Cardinality(Kept) = 1
    /\ Len(TaskRecords) = 1

---------------------------------------------------------------------------
\* seq is prev followed by exactly one more record
AppendsOne(prev, seq) ==
    /\ Len(seq) = Len(prev) + 1
    /\ SubSeq(seq, 1, Len(prev)) = prev

---------------------------------------------------------------------------
\* C23: with the handlers run one at a time and a successful synthesis
\* writing the artifact file, every completed task of the collection has its
\* artifact file in uploads/, and get_audio of it succeeds, from the
\* successful generate until the task is deleted.
C23_CompletedTaskHasItsFile ==
    \A i \in 1..Len(TaskRecords) :
        TaskRecords[i].status = "completed" =>
            /\ "output_audio" \in DOMAIN TaskRecords[i]
            /\ TaskRecords[i].output_audio \in uploads
            /\ ~ENABLED (/\ get_audio(TaskRecords[i].task_id)
                         /\ ~(/\ resp'.code = 200
                              /\ resp'.audio_file = TaskRecords[i].output_audio))

\* After another task was deleted, a get_audio has just served the artifact
\* of a completed task.
C23_Witness ==
    /\ resp.op = "get_audio"
    /\ resp.code = 200
    /\ IssuedTaskIds \ PresentIds # {}
    /\ \E i \in 1..Len(TaskRecords) :
        /\ TaskRecords[i].status = "completed"
        /\ TaskRecords[i].output_audio = resp.audio_file

---------------------------------------------------------------------------
\* The ids of the voices of the voice collection
StoredVoiceIds == {VoiceRecords[i].id : i \in 1..Len(VoiceRecords)}

\* C24: with the handlers run one at a time, in every reachable state every
\* task of the task collection has a voice id that is the id of a voice of
\* the voice collection.
C24_TasksReferenceStoredVoices ==
    \A i \in 1..Len(TaskRecords) : TaskRecords[i].voice_id \in StoredVoiceIds

\* A submit naming a voice that is not stored has just been refused while the
\* collection holds a task bound to the stored voice.
C24_Witness ==
    /\ resp.op = "submit_text_task"
    /\ resp.msg = "invalid voice_id"
    /\ \E i \in 1..Len(TaskRecords) : TaskRecords[i].voice_id \in StoredVoiceIds

---------------------------------------------------------------------------
---------------------------------------------------------------------------
\* The artifact files of uploads/: the files named '<id>_output.wav'
ArtifactFiles == {f \in uploads : f[1] = "" /\ f[3] = "_output.wav"}

\* C26: no orphan artifacts.  With the handlers run one at a time and a
\* failed synthesis writing no file, in every reachable state each artifact
\* file '<id>_output.wav' of uploads/ is the output artifact of a completed
\* task with that id in the task collection; in particular, when delete_task
\* of id has returned, no artifact file of id remains.
C26_NoOrphanArtifacts ==
    /\ \A f \in ArtifactFiles :
        \E i \in 1..Len(TaskRecords) :
            /\ TaskRecords[i].task_id = f[2]
            /\ TaskRecords[i].status = "completed"
            /\ "output_audio" \in DOMAIN TaskRecords[i]
            /\ TaskRecords[i].output_audio = f
    /\ (resp.op = "delete_task" /\ resp.code = 200)
           => ArtifactName(resp.id) \notin uploads

\* A completed task has just been deleted while the artifact file of another
\* completed task is in uploads/.
C26_Witness ==
    /\ resp.op = "delete_task"
    /\ resp.code = 200
    /\ resp.id \in IssuedTaskIds \ PresentIds
    /\ ArtifactFiles # {}
    /\ ENABLED (/\ generate_audio(resp.id, TRUE)
                /\ resp'.code = 404)


---------------------------------------------------------------------------
(* Retry after a failed synthesis (app.py 146-191).  One voice has been     *)
(* uploaded; the task handlers run one at a time, as in Spec.  The caller   *)
(* of generate_audio comes back after every failure and the engine          *)
(* eventually works: generate_audio of a task with a working engine is      *)
(* taken if it stays possible.                                              *)

\* generate_audio(task_id) called while the engine works
generate_audio_engine_works(task_id) ==
    /\ generate_audio(task_id, TRUE)
    /\ UNCHANGED calls

NextRetry ==
    \/ SubmitTextTask
    \/ GenerateAudio
    \/ GetAudio
    \/ DeleteTask

SpecRetry ==
    /\ InitRace
    /\ [][NextRetry]_vars
    /\ \A task_id \in TaskIds : WF_vars(generate_audio_engine_works(task_id))

\* The task with this id is in the task collection with status pending
PendingTask(task_id) ==
    \E i \in 1..Len(TaskRecords) :
        /\ TaskRecords[i].task_id = task_id
        /\ TaskRecords[i].status = "pending"

\* The task with this id is in the task collection, completed
CompletedTask(task_id) ==
    \E i \in 1..Len(TaskRecords) :
        /\ TaskRecords[i].task_id = task_id
        /\ Completed(TaskRecords[i])

\* C27: retry eventually completes.  Under SpecRetry (generate is called
\* again on the task and the engine eventually works), a task that is
\* pending is eventually completed unless it is deleted, and in every state,
\* whatever failed before, generate with a working engine on a pending task
\* completes it.
C27_RetryEventuallyCompletes ==
    /\ \A task_id \in TaskIds :
        PendingTask(task_id)
            ~> (CompletedTask(task_id) \/ task_id \notin PresentIds)
    /\ [](\A task_id \in TaskIds :
            PendingTask(task_id) =>
                ~ENABLED (/\ generate_audio(task_id, TRUE)
                          /\ ~(/\ resp'.code = 200
                               /\ \E i \in 1..Len(text_tasks'.data) :
                                      /\ text_tasks'.data[i].task_id = task_id
                                      /\ Completed(text_tasks'.data[i]))))

\* C27 happens: a generate call has just failed and left a task pending
C27_Witness ==
    /\ resp.op = "generate_audio"
    /\ resp.code = 500
    /\ \E task_id \in TaskIds : PendingTask(task_id)


---------------------------------------------------------------------------
(* Interleaved calls on the task collection (app.py 101-252).  Two callers  *)
(* each make one call of submit_text_task, generate_audio or delete_task;   *)
(* a step is a read of the task file, the engine's run and file write, the  *)
(* removal of the audio files, or a write of the task file.  The voice and  *)
(* the tasks of the first state were stored by earlier calls.               *)

(* app.py 151-165: the checks and tasks = json.load(f) *)
generate_read(p, task_id) ==
    LET refuse(code, msg) ==
            calls' = [calls EXCEPT ![p].pc = "done", ![p].task_id = task_id,
                          ![p].resp = Error("generate_audio", code, msg)]
    IN
    /\ calls[p].pc = "idle"
    /\ UNCHANGED <<metadata, text_tasks, uploads, voiceUuids, taskUuids, resp>>
    /\ IF task_id = NoId
       THEN refuse(400, "missing task_id")
       ELSE IF ~text_tasks.exists
       THEN refuse(400, "task list is empty")
       ELSE IF FirstIndex(text_tasks.data, task_id) = 0
       THEN refuse(404, "task not found")
       ELSE calls' = [calls EXCEPT ![p].pc = "engine", ![p].task_id = task_id,
                          ![p].tasks = text_tasks.data]

(* app.py 171-176 and 190-191: the engine writes the audio file or raises *)
generate_engine(p, engine_ok) ==
    /\ calls[p].pc = "engine"
    /\ UNCHANGED <<metadata, text_tasks, voiceUuids, taskUuids, resp>>
    /\ IF ~engine_ok
       THEN /\ calls' = [calls EXCEPT ![p].pc = "done",
                   ![p].resp = Error("generate_audio", 500, "engine error")]
            /\ UNCHANGED uploads
       ELSE /\ uploads' = uploads \cup {output_filename(calls[p].task_id)}
            /\ calls' = [calls EXCEPT ![p].pc = "persist"]

(* app.py 178-188: the task of the list read at 161 is completed and the    *)
(* list is written                                                          *)
generate_write(p) ==
    LET task_id == calls[p].task_id
        tasks == calls[p].tasks
    IN
    /\ calls[p].pc = "persist"
    /\ text_tasks' = [exists |-> TRUE,
           data |-> complete(tasks, FirstIndex(tasks, task_id),
                             output_filename(task_id))]
    /\ calls' = [calls EXCEPT ![p].pc = "done",
           ![p].resp = Response("generate_audio", 200, "audio generated",
                                NoId, output_filename(task_id),
                                download_url(task_id), <<>>)]
    /\ UNCHANGED <<metadata, uploads, voiceUuids, taskUuids, resp>>

(* app.py 234-240: tasks = json.load(f) *)
delete_read(p, task_id) ==
    /\ calls[p].pc = "idle"
    /\ UNCHANGED <<metadata, text_tasks, uploads, voiceUuids, taskUuids, resp>>
    /\ IF ~text_tasks.exists
       THEN calls' = [calls EXCEPT ![p].pc = "done", ![p].task_id = task_id,
                ![p].resp = Error("delete_task", 404,
                                  "task list does not exist")]
       ELSE calls' = [calls EXCEPT ![p].pc = "remove", ![p].task_id = task_id,
                ![p].tasks = text_tasks.data]

(* app.py 243-247: os.remove of the audio files of the tasks read at 238 *)
delete_remove(p) ==
    /\ calls[p].pc = "remove"
    /\ uploads' = uploads \ removed_files(calls[p].tasks, calls[p].task_id)
    /\ calls' = [calls EXCEPT ![p].pc = "replace"]
    /\ UNCHANGED <<metadata, text_tasks, voiceUuids, taskUuids, resp>>

(* app.py 249-252: json.dump(new_tasks, f) and the answer *)
delete_write(p) ==
    /\ calls[p].pc = "replace"
    /\ text_tasks' = [exists |-> TRUE,
           data |-> SelectNotId(calls[p].tasks, calls[p].task_id)]
    /\ calls' = [calls EXCEPT ![p].pc = "done",
           ![p].resp = Response("delete_task", 200, "task deleted",
                                calls[p].task_id, NoFile, NoFile, <<>>)]
    /\ UNCHANGED <<metadata, uploads, voiceUuids, taskUuids, resp>>

GenerateRead ==
    \E p \in Callers, task_id \in RequestTaskIds : generate_read(p, task_id)

GenerateEngine ==
    \E p \in Callers, engine_ok \in BOOLEAN : generate_engine(p, engine_ok)

GenerateWrite == \E p \in Callers : generate_write(p)

DeleteRead == \E p \in Callers, task_id \in TaskIds : delete_read(p, task_id)

DeleteRemove == \E p \in Callers : delete_remove(p)

DeleteWrite == \E p \in Callers : delete_write(p)

\* One voice and the first n tasks have been stored, every task pending
InitTaskRace ==
    \E f \in UploadNames, n \in 1..NumTaskIds :
        /\ metadata = [exists |-> TRUE,
               data |-> <<[id |-> uuid4(0),
                           filename |-> processed_path(f),
                           duration |-> min_sec,
                           upload_time |-> strftime,
                           path |-> processed_path(f)]>>]
        /\ uploads = {original_path(f), processed_path(f)}
        /\ voiceUuids = 1
        /\ text_tasks = [exists |-> TRUE,
               data |-> [i \in 1..n |->
                   task_record(uuid4(i - 1), uuid4(0),
                               [lead |-> 0, body |-> MinChars, trail |-> 0])]]
        /\ taskUuids = n
        /\ resp = Response("submit_text_task", 200, "task submitted", uuid4(n - 1),
                           NoFile, NoFile, <<>>)
        /\ calls = [p \in Callers |-> IdleCall]

NextTaskRace ==
    \/ SubmitBegin
    \/ SubmitRead
    \/ SubmitWrite
    \/ GenerateRead
    \/ GenerateEngine
    \/ GenerateWrite
    \/ DeleteRead
    \/ DeleteRemove
    \/ DeleteWrite

SpecTaskRace == InitTaskRace /\ [][NextTaskRace]_vars


\* The call of caller p is a call of this handler on this task id, started
\* and possibly returned
CallOn(p, op, id) ==
    /\ calls[p].pc # "idle"
    /\ calls[p].task_id = id
    /\ \/ calls[p].resp.op = op
       \/ /\ op = "generate_audio"
          /\ calls[p].pc \in {"engine", "persist"}
       \/ /\ op = "delete_task"
          /\ calls[p].pc \in {"remove", "replace"}

\* The call of caller p has returned success from this handler on this id
Returned(p, op, id) ==
    /\ calls[p].pc = "done"
    /\ calls[p].resp.op = op
    /\ calls[p].resp.code = 200
    /\ calls[p].task_id = id

\* C28: a deleted task stays deleted under interleaving.  When generate(T)
\* and deleteTask(T) run concurrently, then in every state in which
\* deleteTask(T) has returned success, T is not in the task collection and
\* the artifact file of T does not exist.
C28_DeletedStaysDeleted ==
    \A p, q \in Callers, T \in TaskIds :
        (/\ p # q
         /\ Returned(p, "delete_task", T)
         /\ CallOn(q, "generate_audio", T))
        => /\ T \notin PresentIds
           /\ ArtifactName(T) \notin uploads

\* The call of caller q is a mutating call on the task collection that is
\* not about task T: any submit, or a generate or a delete of another id
MutatesOtherThan(q, T) ==
    \/ calls[q].pc \in {"read", "write"}
    \/ calls[q].resp.op = "submit_text_task"
    \/ \E U \in TaskIds \ {T} :
          \/ CallOn(q, "generate_audio", U)
          \/ CallOn(q, "delete_task", U)

\* C29: completion is never undone by a concurrent writer.  When generate(T)
\* runs concurrently with a mutating call on another id, then in every state
\* in which generate(T) has returned success T is not pending, and a pending
\* T has no artifact file unless a generate(T) call stands between its file
\* write and its collection write.
C29_CompletionNeverUndone ==
    \A p, q \in Callers, T \in TaskIds :
        (/\ p # q
         /\ CallOn(p, "generate_audio", T)
         /\ MutatesOtherThan(q, T))
        => /\ Returned(p, "generate_audio", T) => ~PendingTask(T)
           /\ (PendingTask(T) /\ ArtifactName(T) \in uploads)
                  => calls[p].pc = "persist"


---------------------------------------------------------------------------
(* Interleaved uploads (app.py 25-33, 61-92).  Two callers each make one    *)
(* call of upload_audio; a step is the handler up to the call of            *)
(* save_metadata, save_metadata's read of the voice file, or its write.     *)
(* submit_text_task and generate_audio calls run in between, each in one    *)
(* step.                                                                    *)

(* app.py 66-87: the checks, the files, the id and the metadata record *)
upload_begin(p, has_file, f, decodes, duration) ==
    LET refuse(code, msg) ==
            /\ calls' = [calls EXCEPT ![p].pc = "done",
                             ![p].resp = Error("upload_audio", code, msg)]
            /\ UNCHANGED voiceUuids
    IN
    /\ calls[p].pc = "idle"
    /\ UNCHANGED <<metadata, text_tasks, taskUuids, resp>>
    /\ IF ~has_file
       THEN /\ refuse(400, "No file provided")
            /\ UNCHANGED uploads
       ELSE IF ~decodes
       THEN /\ uploads' = uploads \cup {original_path(f)}
            /\ refuse(500, "standardize_audio failed")
       ELSE IF duration_rejected(duration)
       THEN /\ uploads' = uploads \cup {original_path(f), processed_path(f)}
            /\ refuse(500, "duration out of range")
       ELSE LET voice_id == uuid4(voiceUuids) IN
            /\ uploads' = uploads \cup {original_path(f), processed_path(f)}
            /\ voiceUuids' = voiceUuids + 1
            /\ calls' = [calls EXCEPT ![p].pc = "load",
                   ![p].metadata = [id |-> voice_id,
                                    filename |-> processed_path(f),
                                    duration |-> duration,
                                    upload_time |-> strftime,
                                    path |-> processed_path(f)]]

(* save_metadata, app.py 26-30: data = json.load(f), or [] without a file *)
upload_read(p) ==
    /\ calls[p].pc = "load"
    /\ calls' = [calls EXCEPT ![p].pc = "dump", ![p].data = load_all_voices]
    /\ UNCHANGED <<metadata, text_tasks, uploads, voiceUuids, taskUuids, resp>>

(* save_metadata, app.py 31-33: data.append(metadata), json.dump(data, f);  *)
(* then the answer of upload_audio, app.py 89                               *)
upload_write(p) ==
    /\ calls[p].pc = "dump"
    /\ metadata' = [exists |-> TRUE,
           data |-> Append(calls[p].data, calls[p].metadata)]
    /\ calls' = [calls EXCEPT ![p].pc = "done",
           ![p].resp = Response("upload_audio", 200, "uploaded",
                                calls[p].metadata.id, NoFile, NoFile, <<>>)]
    /\ UNCHANGED <<text_tasks, uploads, voiceUuids, taskUuids, resp>>

UploadBegin ==
    \E p \in Callers, r \in UploadRequests :
        upload_begin(p, r.has_file, r.f, r.decodes, r.duration)

UploadRead == \E p \in Callers : upload_read(p)

UploadWrite == \E p \in Callers : upload_write(p)

NextVoiceRace ==
    \/ UploadBegin
    \/ UploadRead
    \/ UploadWrite
    \/ SubmitTextTask
    \/ GenerateAudio

SpecVoiceRace == Init /\ [][NextVoiceRace]_vars


\* The task with this id is in the task collection and its voice_id is not
\* the id of any voice of the voice collection
UnresolvedVoice(task_id) ==
    \E i \in 1..Len(TaskRecords) :
        /\ TaskRecords[i].task_id = task_id
        /\ TaskRecords[i].voice_id \notin StoredVoiceIds

\* C22: generate on a task whose voice_id resolves to no stored voice
\* answers not found (404), does not run the engine (no audio file is
\* written) and leaves the task collection as it was.
C22_UnresolvedVoiceIsNotFound ==
    [][\A task_id \in TaskIds, engine_ok \in BOOLEAN :
          (/\ UnresolvedVoice(task_id)
           /\ generate_audio(task_id, engine_ok)
           /\ UNCHANGED calls)
          => /\ resp'.code = 404
             /\ uploads' = uploads
             /\ text_tasks' = text_tasks]_vars

\* C30: referential integrity survives concurrent registration.  With two
\* upload calls interleaved at the read and the write of the voice
\* collection, and submit calls in between, in every reachable state every
\* task references a voice of the voice collection and every voice id a
\* successful upload returned is in the voice collection.
C30_ReferencesSurviveRegistration ==
    /\ \A i \in 1..Len(TaskRecords) :
        TaskRecords[i].voice_id \in StoredVoiceIds
    /\ \A p \in Callers :
        (/\ calls[p].pc = "done"
         /\ calls[p].resp.op = "upload_audio"
         /\ calls[p].resp.code = 200)
        => calls[p].resp.id \in StoredVoiceIds

=============================================================================
